---- MODULE Spec2Model ----
(***************************************************************************)
(* Model of the atom set of the Frank-Wolfe solver (src/fw/atoms.hpp):     *)
(* class Atoms with AddAtom, RecoverVector, PruneSupport,                  *)
(* ProjectedGradientEnhancement and the private ProjectionToL1.            *)
(*                                                                         *)
(* Numbers are exact rationals <<n, d>> (d > 0, lowest terms); a vector is *)
(* a sequence of rationals; the atom matrix is the sequence of its columns.*)
(***************************************************************************)
EXTENDS Integers, Sequences, FiniteSets

(***************************************************************************)
(* Bounds of the model.                                                    *)
(***************************************************************************)
\* Largest number of atoms the set is allowed to grow to.
MaxAtoms == 3
\* Largest number of public calls (AddAtom, PruneSupport,
\* ProjectedGradientEnhancement) in one run.
MaxCalls == 4
\* Largest length of a coefficient vector handed to the projection alone.
MaxLen == 3

VARIABLES
  currentAtoms,   \* arma::mat currentAtoms: the sequence of its columns
  atomRows,       \* currentAtoms.n_rows
  currentCoeffs,  \* arma::vec currentCoeffs
  pc,             \* "idle", or the call in progress: "prune", "pge", "proj"
  ret,            \* the call that ended last, and whether it threw
  prune,          \* parameters and locals of the PruneSupport call
  pge,            \* parameters and locals of ProjectedGradientEnhancement
  proj,           \* the bare ProjectionToL1 applications (SpecProj)
  hist,           \* the AddAtom calls made on the set since it was empty
  calls,          \* number of public calls made
  passes,         \* loop passes made by the call in progress or ended last
  sgdr            \* the SGDR object: its batchSize and its optimizer's sizes

vars == <<currentAtoms, atomRows, currentCoeffs, pc, ret, prune, pge, proj,
          hist, calls, passes, sgdr>>

(***************************************************************************)
(* Exact rational arithmetic (the program's double arithmetic, without     *)
(* rounding).                                                              *)
(***************************************************************************)
IAbs(n) == IF n < 0 THEN -n ELSE n

RECURSIVE GCD(_, _)
GCD(a, b) == IF b = 0 THEN a ELSE GCD(b, a % b)

\* The rational n/d in lowest terms with a positive denominator (d # 0).
Rat(n, d) ==
  LET g == GCD(IAbs(n), IAbs(d))
      s == IF d < 0 THEN -1 ELSE 1
  IN  <<(s * n) \div g, (s * d) \div g>>

R(n) == <<n, 1>>
Zero == <<0, 1>>
RAdd(a, b) == Rat(a[1] * b[2] + b[1] * a[2], a[2] * b[2])
RSub(a, b) == Rat(a[1] * b[2] - b[1] * a[2], a[2] * b[2])
RMul(a, b) == Rat(a[1] * b[1], a[2] * b[2])
RDiv(a, b) == Rat(a[1] * b[2], a[2] * b[1])
RNeg(a) == <<-a[1], a[2]>>
RLt(a, b) == a[1] * b[2] < b[1] * a[2]
RLe(a, b) == a[1] * b[2] <= b[1] * a[2]
RAbs(a) == <<IAbs(a[1]), a[2]>>
RMax(a, b) == IF RLt(a, b) THEN b ELSE a
RMin(a, b) == IF RLt(b, a) THEN b ELSE a

\* arma::accu: the sum of the entries of a vector.
RECURSIVE SumTo(_, _)
\* f[1] + ... + f[n] for a sequence f of rationals.
SumTo(f, n) == IF n = 0 THEN Zero ELSE RAdd(SumTo(f, n - 1), f[n])

Accu(v) == SumTo(v, Len(v))

\* A vector built entry by entry, held as a tuple.
Vec(f) == SubSeq(f, 1, Len(f))

\* F(e), with e computed first: the statements of the program run one
\* after the other, each on the values the ones before it have stored.
Then(e, F(_)) == CHOOSE y \in {F(x) : x \in {e}} : TRUE

\* arma::abs, entry by entry.
VAbs(v) == Vec([i \in 1..Len(v) |-> RAbs(v[i])])

(***************************************************************************)
(* ProjectionToL1 (src/fw/atoms.hpp:162-192).                              *)
(***************************************************************************)
\* arma::sort(v, "descend"): insertion of x into a descending sequence.
RECURSIVE InsertDesc(_, _)
InsertDesc(x, s) ==
  IF Len(s) = 0 THEN <<x>>
  ELSE IF RLe(s[1], x) THEN <<x>> \o s
  ELSE <<s[1]>> \o InsertDesc(x, Tail(s))

RECURSIVE SortDescend(_)
SortDescend(v) ==
  IF Len(v) = 0 THEN <<>>
  ELSE InsertDesc(v[Len(v)], SortDescend(SubSeq(v, 1, Len(v) - 1)))

\* arma::cumsum: entry i is v[1] + ... + v[i].
RECURSIVE CumSum(_)
CumSum(v) ==
  IF Len(v) = 0 THEN <<>>
  ELSE LET front == CumSum(SubSeq(v, 1, Len(v) - 1))
       IN  Append(front, IF Len(front) = 0 THEN v[Len(v)]
                         ELSE RAdd(front[Len(front)], v[Len(v)]))

\* nu of line 178 at the 0-based index rho.
Nu(simplexSol, simplexSum, tau, rho) ==
  RSub(simplexSol[rho + 1],
       RDiv(RSub(simplexSum[rho + 1], tau), R(rho + 1)))

\* The scan of lines 175-181: j runs from 1 to n_rows, rho = n_rows - j, and
\* the loop breaks at the first nu > 0; when no index passes, rho is left at
\* its last value, 0.
RECURSIVE ScanRho(_, _, _, _)
ScanRho(simplexSol, simplexSum, tau, j) ==
  LET rho == Len(simplexSol) - j
  IN  IF RLt(Zero, Nu(simplexSol, simplexSum, tau, rho)) THEN rho
      ELSE IF j = Len(simplexSol) THEN rho
      ELSE ScanRho(simplexSol, simplexSum, tau, j + 1)

\* The double +infinity, written as the quotient 1/0.
PosInf == <<1, 0>>

\* theta of line 182: (simplexSum(rho) - tau) / rho with rho converted to
\* double.  With rho = 0 the division is by 0.0; its numerator is then
\* sorted[0] - tau > 0 (the early return of line 167 has not been taken), and
\* IEEE arithmetic gives +infinity.
ThetaPlusTwo(simplexSum, tau, rho) ==
  RDiv(RSub(simplexSum[rho + 1], tau), R(rho + 2))
Theta(simplexSum, tau, rho) ==
  IF rho = 0 THEN PosInf
  ELSE RDiv(RSub(simplexSum[rho + 1], tau), R(rho))

\* Lines 187-190 for one coefficient: std::max(c - theta, 0.0) for c >= 0,
\* std::min(c + theta, 0.0) otherwise.  c - inf is -inf and c + inf is +inf.
ThresholdSignSlip(c, theta) ==
  IF theta = PosInf THEN Zero ELSE RMax(RSub(c, theta), Zero)
Threshold(c, theta) ==
  IF RLe(Zero, c)
  THEN IF theta = PosInf THEN Zero ELSE RMax(RSub(c, theta), Zero)
  ELSE IF theta = PosInf THEN Zero ELSE RMin(RAdd(c, theta), Zero)

\* The whole of ProjectionToL1: the new value of currentCoeffs.
ProjectionToL1(coeffs, tau) ==
  Then(VAbs(coeffs), LAMBDA simplexSol0 :
    IF RLe(Accu(simplexSol0), tau) THEN coeffs
    ELSE Then(SortDescend(simplexSol0), LAMBDA simplexSol :
         Then(CumSum(simplexSol), LAMBDA simplexSum :
         Then(ScanRho(simplexSol, simplexSum, tau, 1), LAMBDA rho :
         Then(Theta(simplexSum, tau, rho), LAMBDA theta :
           Vec([j \in 1..Len(coeffs) |-> Threshold(coeffs[j], theta)]))))))

(***************************************************************************)
(* Dense linear algebra on small vectors and matrices (Armadillo).         *)
(***************************************************************************)
Dot(u, v) == SumTo(Vec([i \in 1..Len(u) |-> RMul(u[i], v[i])]), Len(u))
VecSub(u, v) == Vec([i \in 1..Len(u) |-> RSub(u[i], v[i])])
VecScale(a, u) == Vec([i \in 1..Len(u) |-> RMul(a, u[i])])
SqNorm(u) == Dot(u, u)

\* A * x for a matrix A given by its rows.
MatVec(A, x) == Vec([i \in 1..Len(A) |-> Dot(A[i], x)])
\* A.t() * r for a matrix A given by its rows; A has Len(A[1]) columns.
MatTVec(A, r) ==
  Vec([j \in 1..Len(A[1]) |->
         SumTo(Vec([i \in 1..Len(A) |-> RMul(A[i][j], r[i])]), Len(A))])
\* cols * c for a matrix given by its columns, each of `rows` entries: the
\* product of a rows x 0 matrix and an empty vector is the zero vector of
\* `rows` entries.
ColsVec(cols, c, rows) ==
  Vec([r \in 1..rows |->
         SumTo(Vec([i \in 1..Len(cols) |-> RMul(cols[i][r], c[i])]),
               Len(cols))])
\* The sequence s without its entry at the 1-based index i (shed_col,
\* shed_row).
Shed(s, i) == SubSeq(s, 1, i - 1) \o SubSeq(s, i + 1, Len(s))

(***************************************************************************)
(* The objective FuncSq: f(x) = 0.5 * |A x - b|^2, with MatrixA() and      *)
(* Vectorb().                                                              *)
(***************************************************************************)
Half == <<1, 2>>
Residual(fn, x) == Then(MatVec(fn.A, x), LAMBDA Ax : VecSub(Ax, fn.b))
Evaluate(fn, x) ==
  Then(Residual(fn, x), LAMBDA r : RMul(Half, SqNorm(r)))
Gradient(fn, x) ==
  Then(Residual(fn, x), LAMBDA r : MatTVec(fn.A, r))

\* The objectives the calls are made with.
Objectives ==
  { [A |-> <<<<R(1), R(0)>>, <<R(0), R(1)>>>>, b |-> <<R(1), R(1)>>],
    [A |-> <<<<R(1), R(1)>>, <<R(0), R(1)>>>>, b |-> <<R(2), R(1)>>] }

\* The dimension d of the atoms: the number of columns of MatrixA().
Dim == Len((CHOOSE fn \in Objectives : TRUE).A[1])

(***************************************************************************)
(* arma::solve(M, b) as PruneSupport uses it (line 90): M = A * newAtoms   *)
(* has as many rows as b has entries, two for the objectives above.        *)
(***************************************************************************)
\* The 2 x 2 Gram matrix M * M.t() of a matrix given by its columns.
Gram(cols) ==
  Vec([p \in 1..2 |-> Vec([q \in 1..2 |->
     SumTo(Vec([i \in 1..Len(cols) |-> RMul(cols[i][p], cols[i][q])]),
           Len(cols))])])
GramDet(G) == RSub(RMul(G[1][1], G[2][2]), RMul(G[1][2], G[2][1]))
\* The rank of a matrix of two rows.
Rank(cols) ==
  Then(Gram(cols), LAMBDA G :
      IF GramDet(G) # Zero THEN 2
      ELSE IF RAdd(G[1][1], G[2][2]) # Zero THEN 1 ELSE 0)
\* cols.t() * y.
ColsTVec(cols, y) == Vec([i \in 1..Len(cols) |-> Dot(cols[i], y)])

\* The least-squares solution of least norm: M.t() * inv(M * M.t()) * b for
\* rank 2 (the solution itself for a square M), M.t() * b / |M|^2 for rank 1
\* (the ordinary least-squares fit for a single column), 0 for M = 0.
LeastSquares(cols, b) ==
  Then(Gram(cols), LAMBDA G :
  Then(GramDet(G), LAMBDA det :
  Then(RAdd(G[1][1], G[2][2]), LAMBDA tr :
      IF det # Zero
      THEN ColsTVec(cols,
             << RDiv(RSub(RMul(G[2][2], b[1]), RMul(G[1][2], b[2])), det),
                RDiv(RSub(RMul(G[1][1], b[2]), RMul(G[2][1], b[1])), det) >>)
      ELSE IF tr # Zero THEN VecScale(RDiv(R(1), tr), ColsTVec(cols, b))
      ELSE Vec([i \in 1..Len(cols) |-> Zero]))))

\* What solve() can do: with no column it returns the empty vector; with
\* columns of full rank it returns the solution; with a singular or
\* rank-deficient M it either finds the approximate (least-norm) solution or
\* finds none and throws std::runtime_error.
SolveOutcomes(cols, b) ==
  IF Len(cols) = 0 THEN {[ok |-> TRUE, x |-> <<>>]}
  ELSE IF Rank(cols) < (IF Len(cols) < 2 THEN Len(cols) ELSE 2)
  THEN {[ok |-> TRUE, x |-> LeastSquares(cols, b)], [ok |-> FALSE, x |-> <<>>]}
  ELSE {[ok |-> TRUE, x |-> LeastSquares(cols, b)]}

(***************************************************************************)
(* Inputs of the calls.                                                    *)
(***************************************************************************)
AtomVals == { <<R(1), R(0)>>, <<R(1), R(1)>> }
CoeffVals == { R(-2), R(1) }
Thresholds == { R(0), <<1, 2>>, R(3) }
Taus == { R(0), R(1) }
StepSizes == { R(0), <<1, 2>> }
MaxIterations == { 1, 3 }
Tolerances == { <<1, 1000>> }

NoPrune == [active |-> FALSE]
NoPge == [active |-> FALSE]
NoProj == [n |-> 0]
NoRet == [op |-> "none", threw |-> FALSE]
NoSgdr == [constructed |-> FALSE]

(***************************************************************************)
(* AddAtom (lines 26-39).                                                  *)
(***************************************************************************)
\* currentAtoms.is_empty(): no element.
IsEmpty(atoms, rows) == Len(atoms) = 0 \/ rows = 0

\* insert_cols(0, v) and insert_rows(0, cVec): the new entry goes in front.
InsertBack(s, e) == Append(s, e)
InsertFront(s, e) == <<e>> \o s

\* Lines 28-38: the atoms after AddAtom(v, c).
AtomsAfterAdd(atoms, rows, v) ==
  IF IsEmpty(atoms, rows) THEN <<v>> ELSE InsertFront(atoms, v)

\* Lines 28-38: the coefficients after AddAtom(v, c).
CoeffsAfterAddSlip(atoms, rows, coeffs, c) == <<c>>
CoeffsAfterAdd(atoms, rows, coeffs, c) ==
  IF IsEmpty(atoms, rows) THEN <<c>> ELSE InsertFront(coeffs, c)

AddAtom(v, c) ==
  /\ pc = "idle"
  /\ calls < MaxCalls
  /\ Len(currentAtoms) < MaxAtoms
  /\ UNCHANGED sgdr
  /\ currentAtoms' = AtomsAfterAdd(currentAtoms, atomRows, v)
  /\ currentCoeffs' = CoeffsAfterAdd(currentAtoms, atomRows, currentCoeffs, c)
  /\ hist' = IF IsEmpty(currentAtoms, atomRows)
             THEN [pure |-> TRUE, adds |-> <<<<v, c>>>>]
             ELSE [hist EXCEPT !.adds = Append(@, <<v, c>>)]
  /\ atomRows' = Len(v)
  /\ ret' = [op |-> "AddAtom", threw |-> FALSE]
  /\ calls' = calls + 1
  /\ prune' = NoPrune
  /\ pge' = NoPge
  /\ passes' = 0
  /\ UNCHANGED <<pc, proj>>

\* RecoverVector (lines 43-46): x = currentAtoms * currentCoeffs.
RecoverVectorUnweighted(atoms, coeffs, rows) ==
  ColsVec(atoms, Vec([i \in 1..Len(coeffs) |-> R(1)]), rows)
RecoverVector(atoms, coeffs, rows) == ColsVec(atoms, coeffs, rows)

\* A call of RecoverVector(x) by the user of the class: x is handed back,
\* with the atoms and coefficients the call started from.
RecoverVectorCall ==
  /\ pc = "idle"
  /\ calls < MaxCalls
  /\ calls' = calls + 1
  /\ UNCHANGED sgdr
  /\ ret' = [op |-> "RecoverVector", threw |-> FALSE,
             x |-> RecoverVector(currentAtoms, currentCoeffs, atomRows),
             atoms |-> currentAtoms, coeffs |-> currentCoeffs]
  /\ prune' = NoPrune
  /\ pge' = NoPge
  /\ passes' = 0
  /\ UNCHANGED <<currentAtoms, atomRows, currentCoeffs, pc, proj, hist>>

(***************************************************************************)
(* PruneSupport (lines 67-104).                                            *)
(***************************************************************************)
\* A * atoms, column by column.
MatCols(A, atoms) == Vec([i \in 1..Len(atoms) |-> MatVec(A, atoms[i])])

\* Lines 69-71: 0.5 * |A * atom_i|^2 * coeff_i^2 for every atom.
AtomSqTerm(fn, atoms, coeffs) ==
  Vec([i \in 1..Len(atoms) |->
         RMul(Half, RMul(SqNorm(MatVec(fn.A, atoms[i])),
                         RMul(coeffs[i], coeffs[i])))])

\* Line 82: gap = atomSqTerm - currentCoeffs % trans(gradient.t() * atoms).
Gap(sqTerm, atoms, coeffs, gradient) ==
  Vec([i \in 1..Len(atoms) |->
         RSub(sqTerm[i], RMul(coeffs[i], Dot(gradient, atoms[i])))])

\* gap.min(ind): the 1-based index of the first least entry.
MinIndex(gap) ==
  CHOOSE i \in 1..Len(gap) :
    /\ \A j \in 1..Len(gap) : RLe(gap[i], gap[j])
    /\ \A j \in 1..(i - 1) : RLt(gap[i], gap[j])

\* Line 94: the trial deletion is refused.
Rejected(Fnew, F) == RLt(F, Fnew)

\* Lines 94-102: what is stored after a trial: the value held before it when
\* the trial is refused, the trial's value otherwise.
\* Line 100: the coefficients a commit stores are those of the refit.
CommittedUnfitted(newCoeffs, coeffs, ind) == Shed(coeffs, ind)
Committed(newCoeffs, coeffs, ind) == newCoeffs

AfterTrialAlways(cur, new, Fnew, F) == new
AfterTrial(cur, new, Fnew, F) == IF Rejected(Fnew, F) THEN cur ELSE new

\* The call ends with an exception: the members are as they were.
Throws(op) ==
  /\ pc' = "idle"
  /\ ret' = [op |-> op, threw |-> TRUE]
  /\ UNCHANGED <<currentAtoms, atomRows, currentCoeffs>>

\* Entry and lines 69-71.  On a never-filled set currentAtoms is 0 x 0 and
\* MatrixA() * currentAtoms is refused (std::logic_error).
PruneEnter(F, fn) ==
  /\ pc = "idle"
  /\ calls < MaxCalls
  /\ calls' = calls + 1
  /\ UNCHANGED sgdr
  /\ hist' = [pure |-> FALSE, adds |-> <<>>]
  /\ pge' = NoPge
  /\ passes' = 0
  /\ UNCHANGED proj
  /\ IF atomRows # Len(fn.A[1])
     THEN /\ Throws("PruneSupport")
          /\ prune' = [active |-> FALSE, F |-> F, fn |-> fn, last |-> "dims",
                       accepted |-> 0, trials |-> 0]
     ELSE /\ pc' = "prune"
          /\ prune' = [active |-> TRUE, F |-> F, fn |-> fn,
                       atomSqTerm |->
                         AtomSqTerm(fn, currentAtoms, currentCoeffs),
                       entryAtoms |-> currentAtoms,
                       entryCoeffs |-> currentCoeffs,
                       beforeAtoms |-> currentAtoms,
                       beforeCoeffs |-> currentCoeffs,
                       accepted |-> 0, trials |-> 0, last |-> "none"]
          /\ UNCHANGED <<currentAtoms, atomRows, currentCoeffs, ret>>

\* One pass of the while (true) loop, lines 73-103.
PruneIter ==
  /\ pc = "prune"
  /\ passes' = passes + 1
  /\ UNCHANGED sgdr
  /\ UNCHANGED <<pge, proj, hist, calls>>
  /\ IF Len(currentAtoms) = 0
     THEN \* gap is empty: gap.min(ind) has no element to return.
          /\ Throws("PruneSupport")
          /\ prune' = [prune EXCEPT !.last = "min_of_empty",
                                    !.beforeAtoms = currentAtoms,
                                    !.beforeCoeffs = currentCoeffs]
     ELSE \E x \in {RecoverVector(currentAtoms, currentCoeffs, atomRows)} :
          \E gradient \in {Gradient(prune.fn, x)} :
          \E gap \in {Gap(prune.atomSqTerm, currentAtoms, currentCoeffs,
                          gradient)} :
          \E ind \in {MinIndex(gap)} :
          \E newAtoms \in {Shed(currentAtoms, ind)} :
          \E sol \in SolveOutcomes(MatCols(prune.fn.A, newAtoms),
                                   prune.fn.b) :
            IF ~sol.ok
            THEN /\ Throws("PruneSupport")
                 /\ prune' = [prune EXCEPT !.last = "solve_failed",
                                           !.trials = @ + 1,
                                           !.beforeAtoms = currentAtoms,
                                           !.beforeCoeffs = currentCoeffs]
            ELSE \E Fnew \in {Evaluate(prune.fn,
                                 ColsVec(newAtoms, sol.x, atomRows))} :
                 LET stop == Rejected(Fnew, prune.F)
                 IN  /\ currentAtoms' =
                          AfterTrial(currentAtoms, newAtoms, Fnew, prune.F)
                     /\ currentCoeffs' =
                          AfterTrial(currentCoeffs,
                                     Committed(sol.x, currentCoeffs, ind),
                                     Fnew, prune.F)
                     /\ atomRows' = atomRows
                     /\ prune' = [prune EXCEPT
                          !.atomSqTerm = IF stop THEN @ ELSE Shed(@, ind),
                          !.beforeAtoms = currentAtoms,
                          !.beforeCoeffs = currentCoeffs,
                          !.trials = @ + 1,
                          !.accepted = IF stop THEN @ ELSE @ + 1,
                          !.last = IF stop THEN "reject" ELSE "commit"]
                     /\ pc' = IF stop THEN "idle" ELSE "prune"
                     /\ ret' = IF stop
                               THEN [op |-> "PruneSupport", threw |-> FALSE]
                               ELSE ret

(***************************************************************************)
(* ProjectedGradientEnhancement (lines 108-138), with FuncSq as the        *)
(* FunctionType.                                                           *)
(***************************************************************************)
\* Lines 122-125: currentCoeffs - stepSize * (currentAtoms.t() * g).
GradientStep(fn, atoms, coeffs, rows, stepSize) ==
  Then(RecoverVector(atoms, coeffs, rows), LAMBDA x :
  Then(Gradient(fn, x), LAMBDA g :
    Vec([i \in 1..Len(coeffs) |->
           RSub(coeffs[i], RMul(stepSize, Dot(atoms[i], g)))])))

\* Lines 122-128: the gradient step followed by the projection.
StepWithoutProjection(fn, atoms, coeffs, rows, stepSize, tau) ==
  GradientStep(fn, atoms, coeffs, rows, stepSize)
StepAndProject(fn, atoms, coeffs, rows, stepSize, tau) ==
  Then(GradientStep(fn, atoms, coeffs, rows, stepSize), LAMBDA stepped :
    ProjectionToL1(stepped, tau))

\* Line 120: the loop condition, iter starting at 1.
LoopRunsInclusive(iter, maxIteration) == iter <= maxIteration
LoopRuns(iter, maxIteration) == iter < maxIteration

\* Entry and lines 116-118.  On a never-filled set x is empty and
\* Evaluate(x) multiplies MatrixA() by a vector of the wrong length.
PGEEnter(fn, tau, stepSize, maxIteration, tolerance) ==
  /\ pc = "idle"
  /\ calls < MaxCalls
  /\ calls' = calls + 1
  /\ UNCHANGED sgdr
  /\ hist' = [pure |-> FALSE, adds |-> <<>>]
  /\ prune' = NoPrune
  /\ passes' = 0
  /\ UNCHANGED proj
  /\ IF atomRows # Len(fn.A[1])
     THEN /\ Throws("PGE")
          /\ pge' = [active |-> FALSE, tau |-> tau, steps |-> 0,
                     maxIteration |-> maxIteration]
     ELSE /\ pc' = "pge"
          /\ pge' = [active |-> TRUE, fn |-> fn, tau |-> tau,
                     stepSize |-> stepSize, maxIteration |-> maxIteration,
                     tolerance |-> tolerance, iter |-> 1,
                     value |->
                       Then(RecoverVector(currentAtoms, currentCoeffs,
                                          atomRows),
                            LAMBDA x : Evaluate(fn, x)),
                     entryAtoms |-> currentAtoms,
                     entryCoeffs |-> currentCoeffs,
                     steps |-> 0]
          /\ UNCHANGED <<currentAtoms, atomRows, currentCoeffs, ret>>

\* One pass of the for loop, lines 120-137, or its end.
PGEIter ==
  /\ pc = "pge"
  /\ passes' = passes + 1
  /\ UNCHANGED sgdr
  /\ UNCHANGED <<currentAtoms, atomRows, prune, proj, hist, calls>>
  /\ IF ~LoopRuns(pge.iter, pge.maxIteration)
     THEN /\ pc' = "idle"
          /\ ret' = [op |-> "PGE", threw |-> FALSE]
          /\ UNCHANGED <<currentCoeffs, pge>>
     ELSE /\ currentCoeffs' =
                StepAndProject(pge.fn, currentAtoms, currentCoeffs, atomRows,
                               pge.stepSize, pge.tau)
          /\ \E x \in {RecoverVector(currentAtoms, currentCoeffs', atomRows)} :
             \E valueNew \in {Evaluate(pge.fn, x)} :
               LET stop == RLt(RSub(pge.value, valueNew), pge.tolerance)
               IN  /\ pge' = [pge EXCEPT
                              !.steps = @ + 1,
                              !.iter = IF stop THEN @ ELSE @ + 1,
                              !.value = IF stop THEN @ ELSE valueNew]
                   /\ pc' = IF stop THEN "idle" ELSE "pge"
                   /\ ret' = IF stop THEN [op |-> "PGE", threw |-> FALSE]
                             ELSE ret

(***************************************************************************)
(* The atom set under its public calls.                                    *)
(***************************************************************************)
Init ==
  /\ currentAtoms = <<>>
  /\ atomRows = 0
  /\ currentCoeffs = <<>>
  /\ pc = "idle"
  /\ ret = NoRet
  /\ prune = NoPrune
  /\ pge = NoPge
  /\ proj = NoProj
  /\ hist = [pure |-> TRUE, adds |-> <<>>]
  /\ calls = 0
  /\ passes = 0
  /\ sgdr = NoSgdr

Next ==
  \/ \E v \in AtomVals, c \in CoeffVals : AddAtom(v, c)
  \/ \E F \in Thresholds, fn \in Objectives : PruneEnter(F, fn)
  \/ PruneIter
  \/ \E fn \in Objectives, tau \in Taus, stepSize \in StepSizes,
        maxIteration \in MaxIterations, tolerance \in Tolerances :
       PGEEnter(fn, tau, stepSize, maxIteration, tolerance)
  \/ PGEIter
  \/ RecoverVectorCall

Spec == Init /\ [][Next]_vars

\* A pass of the loop of the call in progress (PruneIter, PGEIter), told by
\* the count of passes alone.
LoopPass == pc # "idle" /\ passes' = passes + 1

\* A call runs on the calling thread until it returns or throws: a loop that
\* has a pass to make makes it.
SpecLive == Spec /\ WF_passes(LoopPass)

(***************************************************************************)
(* ProjectionToL1 on its own: a coefficient vector and a radius drawn from *)
(* small sets, the projection applied, then applied again.                 *)
(***************************************************************************)
ProjVals == { R(-3), <<-9, 10>>, R(0), <<1, 2>>, <<7, 10>>, R(2) }

RECURSIVE Vectors(_, _)
\* The vectors of n entries drawn from S.
Vectors(S, n) ==
  IF n = 0 THEN {<<>>}
  ELSE {Append(v, e) : v \in Vectors(S, n - 1), e \in S}

ProjInputs == UNION {Vectors(ProjVals, n) : n \in 1..MaxLen}

InitProj ==
  /\ currentCoeffs \in ProjInputs
  /\ currentAtoms = Vec([i \in 1..Len(currentCoeffs) |-> <<R(1), R(0)>>])
  /\ atomRows = 2
  /\ pc = "proj"
  /\ ret = NoRet
  /\ prune = NoPrune
  /\ pge = NoPge
  /\ proj = NoProj
  /\ hist = [pure |-> FALSE, adds |-> <<>>]
  /\ calls = 0
  /\ passes = 0
  /\ sgdr = NoSgdr

\* ProjectionToL1(tau) on the current coefficients.
Project(tau) ==
  /\ pc = "proj"
  /\ proj.n = 0
  /\ currentCoeffs' = ProjectionToL1(currentCoeffs, tau)
  /\ proj' = [n |-> 1, tau |-> tau, input |-> currentCoeffs,
              once |-> ProjectionToL1(currentCoeffs, tau)]
  /\ UNCHANGED <<currentAtoms, atomRows, pc, ret, prune, pge, hist, calls,
                 passes, sgdr>>

\* ProjectionToL1 again, with the radius of the first application.
ProjectAgain ==
  /\ pc = "proj"
  /\ proj.n = 1
  /\ currentCoeffs' = ProjectionToL1(currentCoeffs, proj.tau)
  /\ proj' = [proj EXCEPT !.n = 2]
  /\ UNCHANGED <<currentAtoms, atomRows, pc, ret, prune, pge, hist, calls,
                 passes, sgdr>>

NextProj ==
  \/ \E tau \in Taus : Project(tau)
  \/ ProjectAgain

SpecProj == InitProj /\ [][NextProj]_vars

(***************************************************************************)
(* SGDR (sgdr.hpp, sgdr_impl.hpp): the wrapper around the inner optimizer   *)
(* SGD<UpdatePolicyType, CyclicalDecay>.  The record sgdr holds             *)
(*   batchSize     SGDR::batchSize                                          *)
(*   stepSize      optimizer.StepSize()                                     *)
(*   optBatchSize  optimizer.BatchSize()                                    *)
(*   stepSizeMax   optimizer.DecayPolicy().StepSizeMax()                    *)
(*   stepSizeMin   optimizer.DecayPolicy().StepSizeMin()                    *)
(*   chosenMax     the maximum step size the user chose last                *)
(*   inner         the sizes the inner optimizer was started with           *)
(***************************************************************************)
SgdrStepSizes == { <<1, 100>>, <<1, 10>>, <<1, 2>> }
SgdrStepSizeMins == { <<1, 200>> }
BatchSizes == { 1, 2 }
NumFunctionsVals == { 2, 4 }
NoInner == [n |-> 0]

\* The constructor of lines 20-45: stepSizeMax is the inner optimizer's step
\* size and the decay policy's maximum.
SGDRMaxMin(stepSizeMax, stepSizeMin, batchSize) ==
  [constructed |-> TRUE, batchSize |-> batchSize, stepSize |-> stepSizeMax,
   optBatchSize |-> batchSize, stepSizeMax |-> stepSizeMax,
   stepSizeMin |-> stepSizeMin, chosenMax |-> stepSizeMax, inner |-> NoInner]

\* The constructor of lines 47-71: the minimum is 0.1 * stepSize.
SGDRStep(stepSize, batchSize) ==
  [constructed |-> TRUE, batchSize |-> batchSize, stepSize |-> stepSize,
   optBatchSize |-> batchSize, stepSizeMax |-> stepSize,
   stepSizeMin |-> RMul(<<1, 10>>, stepSize), chosenMax |-> stepSize,
   inner |-> NoInner]

InitSGDR ==
  /\ sgdr \in
       {SGDRMaxMin(mx, mn, bs) :
          mx \in SgdrStepSizes, mn \in SgdrStepSizeMins, bs \in BatchSizes}
       \cup {SGDRStep(st, bs) : st \in SgdrStepSizes, bs \in BatchSizes}
  /\ currentAtoms = <<>>
  /\ atomRows = 0
  /\ currentCoeffs = <<>>
  /\ pc = "idle"
  /\ ret = NoRet
  /\ prune = NoPrune
  /\ pge = NoPge
  /\ proj = NoProj
  /\ hist = [pure |-> FALSE, adds |-> <<>>]
  /\ calls = 0
  /\ passes = 0

\* sgdr.hpp line 124: StepSizeMax() = v writes the decay policy's maximum.
SetStepSizeMax(v) ==
  /\ pc = "idle"
  /\ calls < MaxCalls
  /\ calls' = calls + 1
  /\ sgdr' = [sgdr EXCEPT !.stepSizeMax = v, !.chosenMax = v]
  /\ UNCHANGED <<currentAtoms, atomRows, currentCoeffs, pc, ret, prune, pge,
                 proj, hist, passes>>

\* sgdr.hpp line 114: BatchSize() = n writes the inner optimizer's batch
\* size.
SetBatchSize(n) ==
  /\ pc = "idle"
  /\ calls < MaxCalls
  /\ calls' = calls + 1
  /\ sgdr' = [sgdr EXCEPT !.optBatchSize = n]
  /\ UNCHANGED <<currentAtoms, atomRows, currentCoeffs, pc, ret, prune, pge,
                 proj, hist, passes>>

\* Lines 81-84: the decay policy's maximum after the comparison with the
\* inner optimizer's step size.
SyncedStepSizeMax(stepSize, stepSizeMax) ==
  IF stepSize # stepSizeMax THEN stepSize ELSE stepSizeMax

\* Lines 91-94: SGDR::batchSize after the comparison with the inner
\* optimizer's batch size.
SyncedBatchSize(optBatchSize, batchSize) ==
  IF optBatchSize # batchSize THEN optBatchSize ELSE batchSize

\* Optimize, lines 81-96, up to the start of the inner optimizer.
SGDROptimize(numFunctions) ==
  /\ pc = "idle"
  /\ calls < MaxCalls
  /\ calls' = calls + 1
  /\ pc' = "inner"
  /\ sgdr' = [sgdr EXCEPT
       !.stepSizeMax = SyncedStepSizeMax(sgdr.stepSize, @),
       !.batchSize = SyncedBatchSize(sgdr.optBatchSize, @),
       !.inner = [n |-> sgdr.inner.n + 1,
                  stepSize |-> sgdr.stepSize,
                  stepSizeMax |-> SyncedStepSizeMax(sgdr.stepSize,
                                                    sgdr.stepSizeMax),
                  epochBatches |-> RDiv(R(numFunctions),
                                        R(sgdr.optBatchSize))]]
  /\ UNCHANGED <<currentAtoms, atomRows, currentCoeffs, ret, prune, pge,
                 proj, hist, passes>>

\* Line 96: the inner optimizer returns.  It owns its step size, which its
\* decay policy may have moved during the run.
SGDRReturn(stepSize) ==
  /\ pc = "inner"
  /\ pc' = "idle"
  /\ sgdr' = [sgdr EXCEPT !.stepSize = stepSize]
  /\ UNCHANGED <<currentAtoms, atomRows, currentCoeffs, ret, prune, pge,
                 proj, hist, calls, passes>>

NextSGDR ==
  \/ \E v \in SgdrStepSizes : SetStepSizeMax(v)
  \/ \E n \in BatchSizes : SetBatchSize(n)
  \/ \E numFunctions \in NumFunctionsVals : SGDROptimize(numFunctions)
  \/ \E stepSize \in SgdrStepSizes \cup {sgdr.stepSizeMin} :
       SGDRReturn(stepSize)

SpecSGDR == InitSGDR /\ [][NextSGDR]_vars

(***************************************************************************)
(* Properties.                                                             *)
(***************************************************************************)
L1(v) == Accu(VAbs(v))
SqDist(u, v) == SqNorm(VecSub(u, v))
PruneReturned == pc = "idle" /\ ret.op = "PruneSupport" /\ ~ret.threw
PGEReturned == pc = "idle" /\ ret.op = "PGE" /\ ~ret.threw

\* C1: in every state the calls can reach, there are as many coefficients
\* as atoms.
C1_CoeffsMatchAtoms == Len(currentCoeffs) = Len(currentAtoms)

\* An atom was deleted from a set that insertions had grown, and atoms are
\* left.
C1_Witness ==
  /\ pc = "prune"
  /\ prune.accepted >= 1
  /\ Len(currentAtoms) >= 1
  /\ Len(currentCoeffs) = Len(currentAtoms)

\* C2: when PruneSupport returns after accepting at least one trial
\* deletion, fewer atoms are left than at entry and the recovered solution
\* evaluates to at most F.
C2_PruneAcceptance ==
  (PruneReturned /\ prune.accepted >= 1) =>
     /\ Len(currentAtoms) < Len(prune.entryAtoms)
     /\ RLe(Evaluate(prune.fn, RecoverVector(currentAtoms, currentCoeffs,
                                             atomRows)),
            prune.F)

\* PruneSupport has returned after a deletion, with atoms left.
C2_Witness ==
  /\ PruneReturned
  /\ prune.accepted >= 1
  /\ Len(currentAtoms) >= 1
  /\ Len(currentAtoms) < Len(prune.entryAtoms)

\* C3: a refused trial leaves the atoms and coefficients as they were
\* committed before it; when the first trial is refused, they are those of
\* the call's entry.
C3_RejectionKeepsState ==
  PruneReturned =>
     /\ currentAtoms = prune.beforeAtoms
     /\ currentCoeffs = prune.beforeCoeffs
     /\ prune.trials = 1 =>
          /\ currentAtoms = prune.entryAtoms
          /\ currentCoeffs = prune.entryCoeffs

\* The first trial of a call on two or more atoms was refused.
C3_Witness ==
  /\ PruneReturned
  /\ prune.trials = 1
  /\ prune.last = "reject"
  /\ Len(currentAtoms) >= 2

(***************************************************************************)
(* Properties of ProjectionToL1, under SpecProj.                           *)
(***************************************************************************)
Projected == pc = "proj" /\ proj.n >= 1

\* Points of the coefficient space to compare the projection with.
GridVals == { R(-1), <<-1, 2>>, R(0), <<1, 2>>, R(1) }

\* C4: the projection returns the point nearest to c among the vectors whose
\* sum of absolute values is at most tau: it is such a vector, and no such
\* vector (here: of the grid) is nearer to c.
C4_NearestPoint ==
  (Projected /\ proj.n = 1) =>
     /\ RLe(L1(currentCoeffs), proj.tau)
     /\ \A y \in Vectors(GridVals, Len(proj.input)) :
          RLe(L1(y), proj.tau) =>
             RLe(SqDist(currentCoeffs, proj.input), SqDist(y, proj.input))

\* C5: projecting the result of a projection again, with the same tau,
\* returns it unchanged.
C5_Idempotent == (Projected /\ proj.n = 2) => currentCoeffs = proj.once

\* A vector outside the ball was projected twice and was not sent to zero.
C5_Witness ==
  /\ Projected
  /\ proj.n = 2
  /\ proj.once # proj.input
  /\ \E i \in 1..Len(currentCoeffs) : currentCoeffs[i] # Zero

\* The formula of the claim, written from its words.
Sign(c) == IF RLt(Zero, c) THEN R(1) ELSE IF RLt(c, Zero) THEN R(-1) ELSE Zero
SoftThreshold(c, theta) ==
  Vec([i \in 1..Len(c) |->
         RMul(Sign(c[i]), RMax(RSub(RAbs(c[i]), theta), Zero))])
\* The test of the pivot search at the 0-based index r:
\* sorted[r] - (cum[r] - tau) / (r + 1) > 0.
Passes(sorted, cum, tau, r) ==
  RLt(RSub(cum[r + 1], tau), RMul(R(r + 1), sorted[r + 1]))
\* The largest index that passes, among the indices from `from` on.
Pivot(sorted, cum, tau, from) ==
  CHOOSE r \in from..(Len(sorted) - 1) :
    /\ Passes(sorted, cum, tau, r)
    /\ \A q \in (r + 1)..(Len(sorted) - 1) : ~Passes(sorted, cum, tau, q)
HasPivot(sorted, cum, tau, from) ==
  \E r \in from..(Len(sorted) - 1) : Passes(sorted, cum, tau, r)

C7_Tau_Bounds_Always == PGEReturned => RLe(L1(currentCoeffs), pge.tau)

\* C7 as amended: it is at most tau when the call has made at least one
\* gradient/projection step.
C7_Tau_Bounds_After_A_Step ==
  (PGEReturned /\ pge.steps >= 1) => RLe(L1(currentCoeffs), pge.tau)

\* A call that entered outside the ball returned after a step, inside it and
\* not at zero.
C7_Witness ==
  /\ PGEReturned
  /\ pge.steps >= 1
  /\ RLt(pge.tau, L1(pge.entryCoeffs))
  /\ RLe(L1(currentCoeffs), pge.tau)
  /\ RLt(Zero, L1(currentCoeffs))

\* C8: when the refit of a trial deletion fails, the trial is refused and
\* PruneSupport returns normally, with the atoms and coefficients committed
\* before the trial.
C8_RefitFailureContained ==
  (prune.active /\ prune.last = "solve_failed") =>
     /\ PruneReturned
     /\ currentAtoms = prune.beforeAtoms
     /\ currentCoeffs = prune.beforeCoeffs

\* C9: PruneSupport never runs its selection on an empty atom set.
C9_NoSelectionOnEmptySet ==
  ~(prune.active /\ prune.last = "min_of_empty")

\* C10: after AddAtom(v1, c1), ..., AddAtom(vn, cn) on an empty set there
\* are n atoms, and the atom at the 0-based index j is v(n-j), with
\* coefficient c(n-j).
C10_AddAtomPrepends ==
  hist.pure =>
     LET n == Len(hist.adds)
     IN  /\ Len(currentAtoms) = n
         /\ Len(currentCoeffs) = n
         /\ \A j \in 0..(n - 1) :
              /\ currentAtoms[j + 1] = hist.adds[n - j][1]
              /\ currentCoeffs[j + 1] = hist.adds[n - j][2]

\* Three atoms were added to the empty set, the first two unlike.
C10_Witness ==
  /\ hist.pure
  /\ Len(hist.adds) = 3
  /\ hist.adds[1] # hist.adds[2]
  /\ currentAtoms[3] = hist.adds[1][1]

RECURSIVE WeightedSum(_, _, _)
\* The sum over i of coeffs[i] * atoms[i], term by term, from the zero
\* vector of `rows` entries.
WeightedSum(atoms, coeffs, rows) ==
  IF Len(atoms) = 0 THEN Vec([r \in 1..rows |-> Zero])
  ELSE Then(WeightedSum(SubSeq(atoms, 2, Len(atoms)),
                        SubSeq(coeffs, 2, Len(coeffs)), rows),
            LAMBDA rest :
              Vec([r \in 1..rows |->
                     RAdd(RMul(coeffs[1], atoms[1][r]), rest[r])]))
RecoverReturned == pc = "idle" /\ ret.op = "RecoverVector"

C12_PGETerminates ==
  /\ [](pge.active =>
         /\ pge.steps <= (IF pge.maxIteration <= 1 THEN 0
                          ELSE pge.maxIteration - 1)
         /\ pge.maxIteration = 1 => pge.steps <= 1
         /\ currentAtoms = pge.entryAtoms
         /\ Len(currentCoeffs) = Len(pge.entryCoeffs))
  /\ (pc = "pge" ~> pc = "idle")

\* A call with maxIterations = 3 returned after two steps, the tolerance
\* test never met.
C12_Witness ==
  /\ PGEReturned
  /\ pge.maxIteration = 3
  /\ pge.steps = 2
  /\ pge.iter = 3
  /\ currentCoeffs # pge.entryCoeffs

\* C13: a PruneSupport call entered on k >= 1 atoms ends by returning to its
\* caller, never by an exception; while it runs, as many atoms are gone as
\* trials were accepted, and it makes at most k trial deletions.
C13_PruneSupportReturns ==
  (prune.active /\ Len(prune.entryAtoms) >= 1) =>
     /\ ~(pc = "idle" /\ ret.op = "PruneSupport" /\ ret.threw)
     /\ Len(currentAtoms) = Len(prune.entryAtoms) - prune.accepted
     /\ prune.trials <= Len(prune.entryAtoms)

\* C14: when Optimize starts the inner optimizer, the inner step size and
\* the decay policy's maximum step size are equal, and both are the maximum
\* step size the user chose last, through the constructor or StepSizeMax().
C14_UserStepSizeInEffect ==
  (sgdr.constructed /\ pc = "inner") =>
     /\ sgdr.inner.stepSize = sgdr.inner.stepSizeMax
     /\ sgdr.inner.stepSizeMax = sgdr.chosenMax

====
